---- MODULE Spec2Model ----
(***************************************************************************)
(* sgx-panic-backtrace (src/src/lib.rs): a panic hook that prints the      *)
(* panic message and the raw backtrace frames, flushes stdout and then     *)
(* calls the previously registered hook.                                   *)
(*                                                                         *)
(* The process-wide hook slot of std::panic is the variable HOOK; every    *)
(* closure boxed by set_panic_hook is an entry of `closures`, holding the  *)
(* prev_hook it captured.  Each thread is either idle, inside              *)
(* set_panic_hook between take_hook and set_hook, or running the hook      *)
(* chain of a panic one statement at a time.  log[t] records, in order,    *)
(* what thread t did during its current panic: handler invocations,        *)
(* lines printed to stdout, and flushes.                                   *)
(***************************************************************************)
EXTENDS Integers, Sequences, FiniteSets

\* ------------------------------------------------------------------ bounds
MaxInstalls == 2
MaxPanics == 2

Threads == {1, 2}
MainThread == {1}

\* ------------------------------------------------------------ input sets
\* Rendered panic descriptors ({panic_info} through Display).
Descriptors == {"panicked at 'foo', bar.rs:10:5", "panicked at 'boom', src/main.rs:3:9"}

\* Stacks the unwinder may yield, innermost frame first (frame.ip() values):
\* 0x401b09 = 4201225, 0x4013f6 = 4199414, 0x1b09d9 = 1771993.
Stacks == {<< >>, <<1771993>>, <<4201225, 4199414>>, <<4201225, 4199414, 1771993>>}

\* Build targets: the fortanix/sgx target with IMAGE_BASE at 0x400000, and any
\* other target.
Targets == {[sgx |-> TRUE, load |-> 4194304], [sgx |-> FALSE, load |-> 0]}

\* Input sets of the two-thread specification.
ConcDescriptors == {"panicked at 'foo', bar.rs:10:5"}
ConcStacks == {<<4201225>>}

\* The handlers that are not closures of set_panic_hook: std's default hook
\* (what take_hook leaves in the slot) and a hook the host program registered.
DefaultHook == 0
HostHook == -1

VARIABLES
    target,     \* the build target and the address IMAGE_BASE is loaded at
    HOOK,       \* std::panic's process-wide hook slot
    closures,   \* closures[h]: the prev_hook captured by the h-th boxed closure
    H0,         \* the handler registered before any set_panic_hook call
    overlapped, \* history: two set_panic_hook calls have overlapped
    lastTrace,  \* history: stack and output of the last completed trace
    prevTrace,  \* history: the completed trace before lastTrace
    lastRun,    \* history: the handlers called by the last completed panic
    prevRun,    \* history: those of the completed panic before it
    npanics,    \* panics raised so far
    pc,         \* per thread: "idle", "taken", "stmt", "walk", "double_panic"
    prev_hook,  \* per thread: set_panic_hook's local, <<h>> once taken
    cur,        \* per thread: the handler being run
    stmt,       \* per thread: index in HookBody of the next statement
    info,       \* per thread: panic_info of the current panic
    stack,      \* per thread: the frames the unwinder walks
    walked,     \* per thread: frames yielded so far by the unwinder
    frame_idx,  \* per thread: print_backtrace_frames' counter
    nbase,      \* per thread: image_base() calls of the current trace
    seen,       \* per thread: set_panic_hook calls completed when the panic began
    at_start,   \* per thread: "quiet", "window" or "overlapped" when the panic began
    log         \* per thread: events of the current panic

vars == <<target, HOOK, closures, H0, overlapped, lastTrace, prevTrace,
          lastRun, prevRun, npanics, pc, prev_hook, cur, stmt, info, stack, walked, frame_idx, nbase,
          seen, at_start, log>>

\* What the statements of the hook before its last one leave alone.
globals == <<target, HOOK, closures, H0, overlapped, lastTrace, prevTrace,
             lastRun, prevRun, npanics>>

\* --------------------------------------------------------------- formatting
DecDigits == <<"0", "1", "2", "3", "4", "5", "6", "7", "8", "9">>

HexDigits == <<"0", "1", "2", "3", "4", "5", "6", "7", "8", "9",
               "a", "b", "c", "d", "e", "f">>

\* {n} : decimal rendering of a usize.
RECURSIVE Dec(_)
Dec(n) == IF n < 10 THEN DecDigits[n + 1]
          ELSE Dec(n \div 10) \o DecDigits[(n % 10) + 1]

\* {n:x} : lowercase hexadecimal rendering of a usize, no leading zeros.
RECURSIVE Hex(_)
Hex(n) == IF n < 16 THEN HexDigits[n + 1]
          ELSE Hex(n \div 16) \o HexDigits[(n % 16) + 1]

\* {s:>w} : right-align s in a field of minimum width w.
RECURSIVE PadLeft(_, _)
PadLeft(s, w) == IF Len(s) >= w THEN s ELSE PadLeft(" " \o s, w)

\* "{frame_idx:>4}: {ip:#x}"
FrameLine(idx, ip) == PadLeft(Dec(idx), 4) \o ": " \o "0x" \o Hex(ip)

\* "enclave panic: {panic_info}"
MessageLine(d) == "enclave panic: " \o d

HeaderLine == "stack backtrace:"

BlankLine == ""

\* ------------------------------------------------------------ pure helpers
\* image_base(): the address of IMAGE_BASE on the sgx target, 0 elsewhere.
image_base == IF target.sgx THEN target.load ELSE 0

\* A wrapping subtraction (what `-` does in release builds), on a word of 30
\* bits, wide enough for every address of the input stacks.
wrapping_sub(a, b) == (a - b) % 1073741824

\* usize::saturating_sub.  The `as usize` casts of frame.ip() and of
\* image_base() keep the value on the 64-bit targets.
saturating_sub(a, b) == IF a >= b THEN a - b ELSE 0

\* A counter that lives across traces keeps its old value.
frame_idx_kept(old) == old

\* let mut frame_idx: usize = 0;
frame_idx_init(old) == 0

\* A callback that stops the walk after the first frame.
callback_stops == FALSE

\* The callback's return value: `true`, keep tracing.
callback_continue == TRUE

\* The base address read once before the walk: no query after the first.
base_queries_hoisted(n) == IF n = 0 THEN 1 ELSE n

\* `let base_addr = image_base() as usize;` inside the callback: one more query.
base_queries(n) == n + 1

\* .unwrap() on the flush result: an error panics inside the hook.
flush_unwrapped(ok) == IF ok THEN "continue" ELSE "panic"

\* `let _ = std::io::stdout().flush();` : the result is dropped.
flush_result(ok) == "continue"

\* The message printed after the backtrace.
HookBodyTraceFirst == <<"trace", "msg", "flush", "delegate">>

\* A hook that does not continue to the previous hook.
HookBodyNoDelegate == <<"msg", "trace", "flush">>

\* The statements of the closure, in program order.
HookBody == <<"msg", "trace", "flush", "delegate">>

IsClosure(h) == h \in 1..Len(closures)

\* A hook that always continues with std's default hook.
delegate_default(h) == DefaultHook

\* prev_hook as captured by closure h.
captured_prev(h) == closures[h]

\* prev_hook(panic_info): the descriptor the hook was called with.
delegate_info(d) == d

\* ------------------------------------------------------------------ events
Call(h, d) == [k |-> "call", h |-> h, s |-> d]
Println(h, line) == [k |-> "print", h |-> h, s |-> line]
Flush(h, ok) == [k |-> "flush", h |-> h, s |-> IF ok THEN "ok" ELSE "err"]

\* Position of the last "stack backtrace:" line of a log (0: none).
RECURSIVE LastHeader(_, _)
LastHeader(l, i) == IF i = 0 THEN 0
                    ELSE IF l[i].k = "print" /\ l[i].s = HeaderLine THEN i
                    ELSE LastHeader(l, i - 1)

\* The lines printed since (and with) the last header.
TraceBlock(l) == LET b == LastHeader(l, Len(l))
                 IN [i \in 1..(Len(l) - b + 1) |-> l[b + i - 1].s]

\* -------------------------------------------------------------------- init
Init == /\ target \in Targets
        /\ H0 \in {DefaultHook, HostHook}
        /\ HOOK = H0
        /\ closures = << >>
        /\ overlapped = FALSE
        /\ lastTrace = << >>
        /\ prevTrace = << >>
        /\ lastRun = << >>
        /\ prevRun = << >>
        /\ npanics = 0
        /\ pc = [t \in Threads |-> "idle"]
        /\ prev_hook = [t \in Threads |-> << >>]
        /\ cur = [t \in Threads |-> DefaultHook]
        /\ stmt = [t \in Threads |-> 1]
        /\ info = [t \in Threads |-> ""]
        /\ stack = [t \in Threads |-> << >>]
        /\ walked = [t \in Threads |-> 0]
        /\ frame_idx = [t \in Threads |-> 0]
        /\ nbase = [t \in Threads |-> 0]
        /\ seen = [t \in Threads |-> 0]
        /\ at_start = [t \in Threads |-> "quiet"]
        /\ log = [t \in Threads |-> << >>]

\* ----------------------------------------------------------- set_panic_hook
\* let prev_hook = panic::take_hook();
TakeHook(t) ==
    /\ pc[t] = "idle"
    /\ Len(closures) + Cardinality({u \in Threads : pc[u] = "taken"}) < MaxInstalls
    /\ prev_hook' = [prev_hook EXCEPT ![t] = <<HOOK>>]
    /\ HOOK' = DefaultHook
    /\ overlapped' = (overlapped \/ \E u \in Threads \ {t} : pc[u] = "taken")
    /\ pc' = [pc EXCEPT ![t] = "taken"]
    /\ UNCHANGED <<target, closures, H0, lastTrace, prevTrace, lastRun, prevRun,
                   npanics, cur, stmt,
                   info, stack, walked, frame_idx, nbase, seen, at_start, log>>

\* A closure that captures whatever the slot holds when it is registered.
hook_in_slot(t) == HOOK

\* `move`: the closure captures set_panic_hook's local prev_hook.
hook_captured(t) == prev_hook[t][1]

\* panic::set_hook(Box::new(move |panic_info| { ... }));
SetHook(t) ==
    /\ pc[t] = "taken"
    /\ closures' = Append(closures, hook_captured(t))
    /\ HOOK' = Len(closures) + 1
    /\ prev_hook' = [prev_hook EXCEPT ![t] = << >>]
    /\ pc' = [pc EXCEPT ![t] = "idle"]
    /\ UNCHANGED <<target, H0, overlapped, lastTrace, prevTrace, lastRun, prevRun,
                   npanics, cur, stmt,
                   info, stack, walked, frame_idx, nbase, seen, at_start, log>>

\* ------------------------------------------------------------------- panic
\* The handlers called in a log, in order.
CalledHandlers(l) ==
    LET c == SelectSeq(l, LAMBDA e : e.k = "call")
    IN  [i \in 1..Len(c) |-> c[i].h]

\* Handler h is called with descriptor d on thread t, after events l.  A
\* closure starts at its first statement; the default hook and the host's
\* hook do their work and the panic handling of the thread is over.
Invoke(t, h, d, l) ==
    /\ log' = [log EXCEPT ![t] = Append(l, Call(h, d))]
    /\ cur' = [cur EXCEPT ![t] = h]
    /\ pc' = [pc EXCEPT ![t] = IF IsClosure(h) THEN "stmt" ELSE "idle"]
    /\ stmt' = [stmt EXCEPT ![t] = 1]
    /\ IF IsClosure(h)
       THEN UNCHANGED <<lastRun, prevRun>>
       ELSE /\ lastRun' = CalledHandlers(Append(l, Call(h, d)))
            /\ prevRun' = lastRun

\* Thread t panics: the runtime calls the slot's current occupant.
Panic(t, descs) ==
    /\ pc[t] = "idle"
    /\ npanics < MaxPanics
    /\ npanics' = npanics + 1
    /\ \E d \in descs :
          /\ info' = [info EXCEPT ![t] = d]
          /\ Invoke(t, HOOK, d, << >>)
    /\ seen' = [seen EXCEPT ![t] = Len(closures)]
    /\ at_start' = [at_start EXCEPT ![t] =
                        IF overlapped THEN "overlapped"
                        ELSE IF \E u \in Threads : pc[u] = "taken" THEN "window"
                        ELSE "quiet"]
    /\ UNCHANGED <<target, HOOK, closures, H0, overlapped, lastTrace, prevTrace,
                   prev_hook, stack, walked, frame_idx, nbase>>

AtStmt(t, s) == /\ pc[t] = "stmt"
                /\ stmt[t] <= Len(HookBody)
                /\ HookBody[stmt[t]] = s

\* println!("enclave panic: {panic_info}");
PrintMessage(t) ==
    /\ AtStmt(t, "msg")
    /\ log' = [log EXCEPT ![t] = Append(@, Println(cur[t], MessageLine(info[t])))]
    /\ stmt' = [stmt EXCEPT ![t] = @ + 1]
    /\ UNCHANGED <<globals, pc, prev_hook, cur, info, stack, walked, frame_idx,
                   nbase, seen, at_start>>

\* print_backtrace_frames(), up to the call of trace_unsynchronized: the
\* header is printed, frame_idx is initialised and the unwinder starts on the
\* thread's stack.
TraceBegin(t, stacks) ==
    /\ AtStmt(t, "trace")
    /\ log' = [log EXCEPT ![t] = Append(@, Println(cur[t], HeaderLine))]
    /\ frame_idx' = [frame_idx EXCEPT ![t] = frame_idx_init(@)]
    /\ \E s \in stacks : stack' = [stack EXCEPT ![t] = s]
    /\ walked' = [walked EXCEPT ![t] = 0]
    /\ nbase' = [nbase EXCEPT ![t] = 0]
    /\ pc' = [pc EXCEPT ![t] = "walk"]
    /\ UNCHANGED <<globals, prev_hook, cur, stmt, info, seen, at_start>>

\* The unwinder yields the next frame to the callback.
FrameCallback(t) ==
    /\ pc[t] = "walk"
    /\ walked[t] < Len(stack[t])
    /\ LET base_addr == image_base
           ip == saturating_sub(stack[t][walked[t] + 1], base_addr)
       IN  log' = [log EXCEPT ![t] = Append(@, Println(cur[t], FrameLine(frame_idx[t], ip)))]
    /\ nbase' = [nbase EXCEPT ![t] = base_queries(@)]
    /\ frame_idx' = [frame_idx EXCEPT ![t] = @ + 1]
    /\ walked' = [walked EXCEPT ![t] = IF callback_continue THEN @ + 1 ELSE Len(stack[t])]
    /\ UNCHANGED <<globals, pc, prev_hook, cur, stmt, info, stack, seen, at_start>>

\* The walk is over: println!(); and print_backtrace_frames returns.
TraceEnd(t) ==
    /\ pc[t] = "walk"
    /\ walked[t] = Len(stack[t])
    /\ LET l == Append(log[t], Println(cur[t], BlankLine))
       IN  /\ log' = [log EXCEPT ![t] = l]
           /\ lastTrace' = <<[stack |-> stack[t], out |-> TraceBlock(l)]>>
           /\ prevTrace' = lastTrace
    /\ pc' = [pc EXCEPT ![t] = "stmt"]
    /\ stmt' = [stmt EXCEPT ![t] = @ + 1]
    /\ UNCHANGED <<target, HOOK, closures, H0, overlapped, lastRun, prevRun,
                   npanics, prev_hook, cur, info, stack, walked, frame_idx,
                   nbase, seen, at_start>>

\* let _ = std::io::stdout().flush();
FlushStdout(t) ==
    /\ AtStmt(t, "flush")
    /\ \E ok \in BOOLEAN :
          /\ log' = [log EXCEPT ![t] = Append(@, Flush(cur[t], ok))]
          /\ IF flush_result(ok) = "continue"
             THEN /\ stmt' = [stmt EXCEPT ![t] = @ + 1]
                  /\ pc' = pc
             ELSE /\ stmt' = stmt
                  /\ pc' = [pc EXCEPT ![t] = "double_panic"]
    /\ UNCHANGED <<globals, prev_hook, cur, info, stack, walked, frame_idx,
                   nbase, seen, at_start>>

\* A hook that puts the hook it captured back into the slot.
slot_restored(h) == closures[h]

\* The closure calls neither take_hook nor set_hook: the slot keeps its hook.
slot_after_hook(h) == HOOK

\* prev_hook(panic_info);
Delegate(t) ==
    /\ AtStmt(t, "delegate")
    /\ Invoke(t, captured_prev(cur[t]), delegate_info(info[t]), log[t])
    /\ HOOK' = slot_after_hook(cur[t])
    /\ UNCHANGED <<target, closures, H0, overlapped, lastTrace, prevTrace, npanics,
                   prev_hook, info, stack, walked, frame_idx, nbase, seen,
                   at_start>>

\* ------------------------------------------------------------------- specs
ThreadStep(t, descs, stacks) ==
    \/ TakeHook(t)
    \/ SetHook(t)
    \/ Panic(t, descs)
    \/ PrintMessage(t)
    \/ TraceBegin(t, stacks)
    \/ FrameCallback(t)
    \/ TraceEnd(t)
    \/ FlushStdout(t)
    \/ Delegate(t)

\* One thread: set_panic_hook calls and panics follow one another.
Next == \E t \in MainThread : ThreadStep(t, Descriptors, Stacks)

Spec == Init /\ [][Next]_vars

\* Several threads call set_panic_hook and panic in any interleaving.
NextConc == \E t \in Threads : ThreadStep(t, ConcDescriptors, ConcStacks)

SpecConc == Init /\ [][NextConc]_vars

\* ------------------------------------------------------- reading the logs
IsCall(e) == e.k = "call"
IsFlush(e) == e.k = "flush"

\* What an event is: a handler call, a flush, or one of the four kinds of line.
Kind(e) == IF e.k = "call" THEN "call"
           ELSE IF e.k = "flush" THEN "flush"
           ELSE IF e.s = HeaderLine THEN "hdr"
           ELSE IF e.s = BlankLine THEN "blank"
           ELSE IF \E d \in Descriptors : e.s = MessageLine(d) THEN "msg"
           ELSE "frame"

IsMsg(e) == Kind(e) = "msg"
IsHdr(e) == Kind(e) = "hdr"
IsBlank(e) == Kind(e) = "blank"

Calls(l) == SelectSeq(l, IsCall)

\* The handlers called during a panic, in order.
Handlers(l) == [i \in 1..Len(Calls(l)) |-> Calls(l)[i].h]

\* The handler the runtime found in the slot when the panic of a log began.
Entry(l) == l[1].h

\* The hooks whose events of one kind appear in a log, in order.
HooksOf(evs) == [i \in 1..Len(evs) |-> evs[i].h]

\* Thread t is inside the hook chain of a panic.
InPanic(t) == pc[t] \in {"stmt", "walk", "double_panic"}

\* The last panic of thread t has run to the end of the handler chain.
Completed(t) == log[t] # << >> /\ ~InPanic(t)

\* N, N-1, ..., 1
Countdown(n) == [i \in 1..n |-> n + 1 - i]

\* The delegation chain that starts at handler h.
RECURSIVE ChainSeq(_)
ChainSeq(h) == IF IsClosure(h) THEN <<h>> \o ChainSeq(closures[h]) ELSE <<h>>

\* The trace of thread t is under way or has just printed its blank line.
InTrace(t) == pc[t] = "walk"
TraceDone(t) == /\ pc[t] = "stmt"
                /\ log[t] # << >>
                /\ log[t][Len(log[t])] = Println(cur[t], BlankLine)

\* ------------------------------------------------------------------ claims

C2_Chaining ==
    \A t \in MainThread :
        Completed(t) =>
            LET N == seen[t]
                l == log[t]
            IN  /\ Handlers(l) = Countdown(N) \o <<H0>>
                /\ HooksOf(SelectSeq(l, IsMsg)) = Countdown(N)
                /\ HooksOf(SelectSeq(l, IsHdr)) = Countdown(N)
                /\ HooksOf(SelectSeq(l, IsBlank)) = Countdown(N)
                /\ HooksOf(SelectSeq(l, IsFlush)) = Countdown(N)
                /\ l[Len(l)].k = "call" /\ l[Len(l)].h = H0

C2_Witness ==
    \E t \in MainThread :
        /\ Completed(t)
        /\ seen[t] = 2
        /\ Handlers(log[t]) = <<2, 1, H0>>

\* Every instruction pointer of the input stacks, and every offset a frame of
\* them can have under some target.
AllIps == UNION {{st[i] : i \in 1..Len(st)} : st \in Stacks}
PossibleBases == {0} \cup {tg.load : tg \in Targets}
PossibleOffsets == {0} \cup {o \in {ip - b : ip \in AllIps, b \in PossibleBases} : o >= 0}

\* Lines 2..n+1 of a block are frame lines with the indices 0..n-1, in order.
IndexedLines(out, n) ==
    \A i \in 1..n : \E o \in PossibleOffsets : out[i + 1] = FrameLine(i - 1, o)

\* C3: a trace of a stack of N frames prints the header, then exactly N frame
\* lines with the indices 0, 1, ..., N-1 in order (one per frame yielded, the
\* walk never stopped early), then exactly one blank line; with no frame the
\* header is followed at once by the blank line.
C3_FrameLines ==
    /\ lastTrace # << >> =>
          LET out == lastTrace[1].out
              N == Len(lastTrace[1].stack)
          IN  /\ Len(out) = N + 2
              /\ out[1] = "stack backtrace:"
              /\ IndexedLines(out, N)
              /\ out[N + 2] = ""
              /\ N = 0 => out = <<"stack backtrace:", "">>
    /\ \A t \in Threads :
          InTrace(t) =>
              LET blk == TraceBlock(log[t])
              IN  /\ walked[t] <= Len(stack[t])
                  /\ Len(blk) = walked[t] + 1
                  /\ blk[1] = "stack backtrace:"
                  /\ IndexedLines(blk, walked[t])

C3_Witness ==
    /\ lastTrace # << >>
    /\ Len(lastTrace[1].stack) = 3
    /\ prevTrace # << >>
    /\ Len(prevTrace[1].stack) = 0

\* C4: the offset printed for a frame is ip - base when ip >= base and 0 when
\* ip < base; base 0x400000 with ips 0x401b09, 0x4013f6 prints 0x1b09 and
\* 0x13f6 at indices 0 and 1, and off the sgx target (base 0) the ip is
\* printed unchanged.
C4_Offsets ==
    lastTrace # << >> =>
        LET out == lastTrace[1].out
            st == lastTrace[1].stack
            base == IF target.sgx THEN target.load ELSE 0
        IN  /\ \A i \in 1..Len(st) :
                  out[i + 1] = FrameLine(i - 1, IF st[i] >= base THEN st[i] - base ELSE 0)
            /\ (target.sgx /\ target.load = 4194304 /\ st = <<4201225, 4199414>>)
                  => out = <<"stack backtrace:", "   0: 0x1b09", "   1: 0x13f6", "">>
            /\ (~target.sgx /\ st = <<1771993>>)
                  => out = <<"stack backtrace:", "   0: 0x1b09d9", "">>
            /\ (target.sgx /\ target.load = 4194304 /\ st = <<1771993>>)
                  => out = <<"stack backtrace:", "   0: 0x0", "">>
            /\ (~target.sgx /\ st = <<4201225, 4199414>>)
                  => out = <<"stack backtrace:", "   0: 0x401b09", "   1: 0x4013f6", "">>

C4_Witness ==
    /\ lastTrace # << >>
    /\ target.sgx
    /\ lastTrace[1].stack = <<4201225, 4199414, 1771993>>
    /\ lastTrace[1].out[4] = "   2: 0x0"

\* C5: a flush that fails changes nothing: whatever the flush returned, the
\* hook goes on to its call of the previous hook with the descriptor it was
\* given, and no second panic is raised inside the hook.
C5_FlushIgnored ==
    \A t \in Threads :
        /\ pc[t] # "double_panic"
        /\ \A i \in 1..Len(log[t]) :
              log[t][i].k = "flush" =>
                  LET h == log[t][i].h
                  IN  /\ IsClosure(h)
                      /\ i < Len(log[t]) => log[t][i + 1] = Call(closures[h], info[t])
                      /\ i = Len(log[t]) => /\ pc[t] = "stmt"
                                            /\ cur[t] = h
                                            /\ stmt[t] <= Len(HookBody)
                                            /\ HookBody[stmt[t]] = "delegate"

C5_Witness ==
    \E t \in Threads : \E i \in 1..Len(log[t]) :
        /\ log[t][i].k = "flush"
        /\ log[t][i].s = "err"
        /\ i < Len(log[t])
        /\ log[t][i + 1].k = "call"
        /\ Completed(t)

\* C6: every invocation of an installed hook with descriptor D calls the hook
\* it captured, once, with the same D, after its own diagnostics and whatever
\* the number of frames; a panic ends only in a handler that is not one of
\* these hooks.
C6_Additive ==
    \A t \in Threads :
        LET c == Calls(log[t])
            n == Len(c)
        IN  /\ \A i \in 1..n :
                  /\ c[i].s = info[t]
                  /\ i > 1 => IsClosure(c[i - 1].h) /\ c[i].h = closures[c[i - 1].h]
            /\ Completed(t) =>
                  /\ ~IsClosure(c[n].h)
                  /\ n = Len(SelectSeq(log[t], IsMsg)) + 1
                  /\ n = Len(SelectSeq(log[t], IsFlush)) + 1
            /\ InPanic(t) =>
                  /\ IsClosure(c[n].h)
                  /\ cur[t] = c[n].h
                  /\ pc[t] \in {"stmt", "walk"}
                  /\ pc[t] = "stmt" => stmt[t] <= Len(HookBody)

C6_Witness ==
    \E t \in Threads :
        /\ Completed(t)
        /\ H0 = HostHook
        /\ Handlers(log[t]) = <<2, 1, HostHook>>
        /\ \A i \in 1..3 : Calls(log[t])[i].s = "panicked at 'boom', src/main.rs:3:9"

\* C7: tracing keeps no state from one run to the next: two traces of the same
\* stack (the base address is fixed) print the same lines, so the frame index
\* of the second starts again at 0.
C7_Deterministic ==
    (lastTrace # << >> /\ prevTrace # << >> /\ lastTrace[1].stack = prevTrace[1].stack)
        => lastTrace[1].out = prevTrace[1].out

C7_Witness ==
    /\ lastTrace # << >>
    /\ prevTrace # << >>
    /\ lastTrace[1].stack = prevTrace[1].stack
    /\ Len(lastTrace[1].stack) = 3
    /\ lastTrace[1].out[2] = "   0: 0x401b09"

\* C8 as stated: once a trace has yielded a frame, image_base has been queried
\* exactly once for that trace.
C8_QueriedOnce ==
    \A t \in Threads :
        ((InTrace(t) \/ TraceDone(t)) /\ walked[t] >= 1) => nbase[t] = 1

\* C8, amended: image_base is queried once per frame yielded, so a trace of N
\* frames queries it N times (not at all when N = 0); every query returns the
\* same value, and the offsets of all frames of the trace are taken from that
\* one base.
C8_QueriedPerFrame ==
    \A t \in Threads :
        (InTrace(t) \/ TraceDone(t)) =>
            LET blk == TraceBlock(log[t])
            IN  /\ nbase[t] = walked[t]
                /\ TraceDone(t) => nbase[t] = Len(stack[t])
                /\ \E b \in PossibleBases :
                      \A i \in 1..walked[t] :
                          blk[i + 1] = FrameLine(i - 1, IF stack[t][i] >= b
                                                        THEN stack[t][i] - b ELSE 0)

C8_Witness ==
    \E t \in Threads :
        /\ TraceDone(t)
        /\ Len(stack[t]) = 3
        /\ nbase[t] = 3

\* C9 as stated: set_panic_hook installs in one step, so whatever the
\* interleaving, the chain a panic starts on holds every hook installed by a
\* set_panic_hook call completed before the panic began, and ends in the
\* original handler H0.
C9_AtomicInstall ==
    \A t \in Threads :
        log[t] # << >> =>
            LET chain == ChainSeq(Entry(log[t]))
                reached == {chain[i] : i \in 1..Len(chain)}
            IN  /\ \A h \in 1..seen[t] : h \in reached
                /\ H0 \in reached

\* C9, amended: set_panic_hook is two atomic steps, take_hook and then
\* set_hook, and between them the slot holds std's default hook.  As long as
\* no two set_panic_hook calls have overlapped: a panic that begins while no
\* call is between its two steps runs the hooks of all completed calls, the
\* newest first, and ends in H0; a panic that begins while a call is between
\* its two steps finds the default hook in the slot.
C9_TwoStepInstall ==
    /\ (~overlapped /\ \E u \in Threads : pc[u] = "taken") => HOOK = DefaultHook
    /\ (~overlapped /\ \A u \in Threads : pc[u] # "taken")
          => ChainSeq(HOOK) = Countdown(Len(closures)) \o <<H0>>
    /\ \A t \in Threads :
          log[t] # << >> =>
              /\ at_start[t] = "quiet"
                    => ChainSeq(Entry(log[t])) = Countdown(seen[t]) \o <<H0>>
              /\ at_start[t] = "window" => Entry(log[t]) = DefaultHook
              /\ Completed(t) => Handlers(log[t]) = ChainSeq(Entry(log[t]))

C9_Witness ==
    \E t \in Threads : \E u \in Threads \ {t} :
        /\ Completed(t)
        /\ at_start[t] = "window"
        /\ H0 = HostHook
        /\ Handlers(log[t]) = <<DefaultHook>>
        /\ Completed(u)
        /\ at_start[u] = "quiet"
        /\ Handlers(log[u]) = <<2, 1, HostHook>>

\* C10: running the hook chain changes neither the registered handler nor the
\* hook any closure captured: as long as no set_panic_hook call has started
\* since a panic began, the slot still holds the handler that panic started
\* on; every hook still holds the handler it delegated to; and two panics that
\* start on the same handler call the same handlers in the same order.
C10_HandlersKept ==
    /\ \A t \in Threads :
          /\ (log[t] # << >> /\ Len(closures) = seen[t]
                /\ \A u \in Threads : pc[u] # "taken")
                => HOOK = Entry(log[t])
          /\ \A i \in 2..Len(Calls(log[t])) :
                closures[Calls(log[t])[i - 1].h] = Calls(log[t])[i].h
    /\ (lastRun # << >> /\ prevRun # << >> /\ lastRun[1] = prevRun[1])
          => lastRun = prevRun

C10_Witness ==
    /\ npanics = 2
    /\ \E t \in Threads : Completed(t) /\ HOOK = Entry(log[t])
    /\ HOOK = 2
    /\ lastRun = <<2, 1, H0>>
    /\ prevRun = lastRun

====
